---- MODULE Spec2Model ----
(***************************************************************************)
(* Model of the AutoLearn-CS topic scheduling and posting pipeline:        *)
(*   modules/topic_tracker.py  the SQLite topic store                      *)
(*   modules/scheduler.py      post_topic and schedule_daily_posts         *)
(*   main.py                   the Flask routes and the background executor*)
(***************************************************************************)
EXTENDS Integers, Sequences, FiniteSets, TLC

\* ------------------------------------------------------------------------
\* Bounds of the model
\* ------------------------------------------------------------------------
NumCallers == 2
MaxLimit == 2
MaxTime == 2
MaxId == 3
MaxPosts == 1
MaxQueue == 1
MaxPins == 2

\* ------------------------------------------------------------------------
\* Program constants
\* ------------------------------------------------------------------------
max_workers == 2
NumSlides == 2
NumCaptions == 13

Names == {"Arrays", "Stacks", "Queues"}
Statuses == {"pending", "in_progress", "done", "failed"}
NULL == 0
NoNote == "NULL"
NoOwner == 0

Callers == 1..NumCallers
Workers == 1..max_workers
Limits == (-1)..MaxLimit

Min(a, b) == IF a < b THEN a ELSE b

SeqToSet(s) == {s[i] : i \in 1..Len(s)}

\* ------------------------------------------------------------------------
\* State
\* ------------------------------------------------------------------------
VARIABLES
  topics,   \* the topics table: topic name -> row, for the names present
  seq,      \* AUTOINCREMENT high-water mark of topics.id
  now,      \* the value datetime.utcnow() returns
  lock,     \* the caller holding the SQLite write lock, or NoOwner
  call,     \* per calling thread: position inside the call it is making
  queue,    \* the executor's work queue of submitted background_post tasks
  worker,   \* per executor thread: the background_post it is running
  pl,       \* one run of post_topic, step by step
  claims,   \* history: per name, claims returned since last put to pending
  hist,     \* history: per name, the transitions to done since its creation,
            \* and the category the form of the step just taken gave
  ret       \* what the step just taken returned to its caller

vars ==
  <<topics, seq, now, lock, call, queue, worker, pl, claims, hist, ret>>

IdleCall == [pc |-> "idle", role |-> "none", limit |-> 0, rows |-> <<>>,
             task |-> <<>>]
NoRet == [op |-> "none"]
NoHist == [dones |-> [n \in Names |-> 0], form |-> "none"]
AddRet(raw, val, existed, err) ==
  [op |-> "add_topic", raw |-> raw, val |-> val, existed |-> existed,
   err |-> err]
PickRet(rows, err) == [op |-> "pick_next_topics", val |-> rows, err |-> err]
IdleWorker == [pc |-> "idle", task |-> <<>>]

\* ------------------------------------------------------------------------
\* The pipeline of one topic (modules/scheduler.py: post_topic)
\* ------------------------------------------------------------------------
NoRun == [pc |-> "none"]

\* entry of post_topic
PlStart ==
  [pc |-> "generate", image_paths |-> <<>>, pins |-> 0, i |-> 0,
   published |-> <<>>, attempts |-> <<>>,
   gen_calls |-> 0, render_calls |-> 0, fetch_calls |-> 0,
   error |-> "none"]

Slide(n) == [src |-> "slide", n |-> n, exists |-> TRUE]
Pin(n) == [src |-> "pinterest", n |-> n, exists |-> TRUE]

\* generate_slides_and_save: the paths of the slides make_slide saved, in order
RECURSIVE SavedSlides(_, _)
SavedSlides(saved, n) ==
  IF n > NumSlides THEN <<>>
  ELSE (IF n \in saved THEN <<Slide(n)>> ELSE <<>>) \o SavedSlides(saved, n + 1)

\* zip(image_paths, captions + ["Visual reference"] * 10) stops at the shorter
LoopLen(p) == Min(Len(p.image_paths), NumCaptions)

\* generate_topic_slides is called once more after its first failure
GenerateRaised_Retry(p) ==
  IF p.gen_calls = 0 THEN [p EXCEPT !.gen_calls = @ + 1]
  ELSE [p EXCEPT !.pc = "raised", !.gen_calls = @ + 1,
                 !.error = "generation"]

\* generate_topic_slides raises RuntimeError: post_topic ends with it
GenerateRaised(p) ==
  [p EXCEPT !.pc = "raised", !.gen_calls = @ + 1, !.error = "generation"]

\* the for loop over the images is entered, or is over at once
EnterPublish(p) ==
  IF LoopLen(p) = 0 THEN [p EXCEPT !.pc = "returned"]
  ELSE [p EXCEPT !.pc = "publish", !.i = 1]

\* the loop moves on to the next image, or post_topic returns published
NextImage(p) ==
  IF p.i + 1 > LoopLen(p) THEN [p EXCEPT !.pc = "returned"]
  ELSE [p EXCEPT !.i = p.i + 1]

\* the loop left with break at the first image that is not posted
PublishTurn_Break(p, o) ==
  IF o = "missing" THEN NextImage(p)
  ELSE IF o = "raise" \/ o = "false"
  THEN [p EXCEPT !.pc = "returned", !.attempts = Append(@, p.i)]
  ELSE NextImage([p EXCEPT !.attempts = Append(@, p.i),
                           !.published = Append(@, TRUE)])

\* one turn of the for loop over the images: skip a missing file, else
\* post_local_image(img, cap, ..) and published.append(result); an exception
\* is logged and the loop goes on
PublishTurn(p, o) ==
  IF o = "missing" THEN NextImage(p)
  ELSE IF o = "raise"
  THEN NextImage([p EXCEPT !.attempts = Append(@, p.i)])
  ELSE NextImage([p EXCEPT !.attempts = Append(@, p.i),
                           !.published = Append(@, o = "true")])

\* what the collaborator called at p.pc can answer
Outcomes(p) ==
  CASE p.pc = "generate" -> {"ok", "raise"}
    [] p.pc = "render" -> SUBSET (1..NumSlides)
    [] p.pc = "fetch" -> 0..MaxPins
    [] p.pc = "copy" -> {"ok", "raise"}
    [] p.pc = "publish" -> IF p.image_paths[p.i].exists
                             THEN {"true", "false", "raise"} ELSE {"missing"}
    [] OTHER -> {}

\* one step of post_topic, the collaborator answering o
PlStep(p, o) ==
  CASE p.pc = "generate" ->
         \* slides = generate_topic_slides(topic_name)
         IF o = "raise" THEN GenerateRaised(p)
         ELSE [p EXCEPT !.pc = "render", !.gen_calls = @ + 1]
    [] p.pc = "render" ->
         \* image_paths = generate_slides_and_save(topic_obj, slides, ...)
         [p EXCEPT !.pc = "fetch", !.render_calls = @ + 1,
                   !.image_paths = SavedSlides(o, 1)]
    [] p.pc = "fetch" ->
         \* pinterest_images = fetch_pinterest_images(topic_name, count=3):
         \* o images with a path, or the one placeholder with path ""
         IF o = 0
         THEN EnterPublish([p EXCEPT !.fetch_calls = @ + 1])
         ELSE [p EXCEPT !.pc = "copy", !.fetch_calls = @ + 1, !.pins = o]
    [] p.pc = "copy" ->
         \* shutil.copy2(pint_img["path"], dest); image_paths.append(dest)
         IF o = "raise" THEN [p EXCEPT !.pc = "raised", !.error = "copy"]
         ELSE LET q == [p EXCEPT !.image_paths =
                          Append(@, Pin(Len(p.image_paths) + 1)),
                                 !.pins = @ - 1]
              IN IF q.pins = 0 THEN EnterPublish(q) ELSE q
    [] p.pc = "publish" -> PublishTurn(p, o)
    [] OTHER -> p

\* every way a run of post_topic from p can end
RECURSIVE PlRuns(_)
PlRuns(p) ==
  IF p.pc \in {"returned", "raised"} THEN {p}
  ELSE UNION {PlRuns(PlStep(p, o)) : o \in Outcomes(p)}

\* how a finished run of post_topic looks to its caller and to the platform
RunKind(f) ==
  IF f.pc = "raised" THEN "raised"
  ELSE IF f.attempts = <<>> THEN "no_artifacts"
  ELSE IF Len(f.published) = Len(f.attempts)
          /\ \A k \in 1..Len(f.published) : f.published[k]
       THEN "all_published"
  ELSE "partial_failure"

PostTopicKinds == {RunKind(f) : f \in PlRuns(PlStart)}

\* ------------------------------------------------------------------------
\* Topic store (modules/topic_tracker.py)
\* ------------------------------------------------------------------------
\* CREATE TABLE topics: column defaults of a freshly inserted row
NewRow(id, topic, created, note, category) ==
  [id |-> id, topic |-> topic, status |-> "pending", created_at |-> created,
   last_posted |-> NULL, times_posted |-> 0, note |-> note,
   category |-> category]

\* str.strip() on the raw input, a sequence of tokens of which " " is blank
RECURSIVE LStrip(_)
LStrip(s) == IF s # <<>> /\ Head(s) = " " THEN LStrip(Tail(s)) ELSE s

RECURSIVE RStrip(_)
RStrip(s) ==
  IF s # <<>> /\ s[Len(s)] = " " THEN RStrip(SubSeq(s, 1, Len(s) - 1)) ELSE s

\* the input taken as it is
Strip_None(s) == s

Strip(s) == RStrip(LStrip(s))

RawNames ==
  {<<n>> : n \in Names} \cup {<<" ", "Arrays", " ">>, <<>>, <<" ", " ">>}

\* WHERE status = 'pending'
PendingNames(T) == {n \in DOMAIN T : T[n].status = "pending"}

\* ORDER BY created_at left out: the pending rows in any order
OrderedPending_Unordered(T) ==
  LET P == PendingNames(T)
      k == Cardinality(P)
  IN {s \in [1..k -> P] : \A i, j \in 1..k : i # j => s[i] # s[j]}

\* ORDER BY created_at: every order of the pending rows that is ascending in
\* created_at (SQL leaves the order of equal keys open)
OrderedPending(T) ==
  LET P == PendingNames(T)
      k == Cardinality(P)
  IN {s \in [1..k -> P] :
        /\ \A i, j \in 1..k : i # j => s[i] # s[j]
        /\ \A i, j \in 1..k : i < j => T[s[i]].created_at <= T[s[j]].created_at}

\* LIMIT ? + 1
LimitRows_OffByOne(s, limit) ==
  IF limit < 0 THEN s ELSE SubSeq(s, 1, Min(limit + 1, Len(s)))

\* LIMIT ?: a negative limit is no limit in SQLite
LimitRows(s, limit) ==
  IF limit < 0 THEN s ELSE SubSeq(s, 1, Min(limit, Len(s)))

\* SELECT * FROM topics WHERE status = 'pending' ORDER BY created_at LIMIT ?
SelectPending(T, limit) ==
  {[i \in 1..Len(LimitRows(s, limit)) |-> T[s[i]]] : s \in OrderedPending(T)}

\* the UPDATE left out
UpdateInProgress_NoUpdate(T, rows) == T

\* UPDATE topics SET status = 'in_progress' WHERE status = 'pending'
UpdateInProgress_AllPending(T, rows) ==
  [n \in DOMAIN T |->
     IF T[n].status = "pending" THEN [T[n] EXCEPT !.status = "in_progress"]
     ELSE T[n]]

\* the UPDATE also puts every row that was in_progress back to pending
UpdateInProgress_Heal(T, rows) ==
  LET ids == {rows[i].id : i \in 1..Len(rows)}
  IN [n \in DOMAIN T |->
        IF T[n].id \in ids THEN [T[n] EXCEPT !.status = "in_progress"]
        ELSE IF T[n].status = "in_progress"
        THEN [T[n] EXCEPT !.status = "pending"]
        ELSE T[n]]

\* UPDATE topics SET status = 'in_progress' WHERE id IN (ids)
UpdateInProgress(T, rows) ==
  LET ids == {rows[i].id : i \in 1..Len(rows)}
  IN [n \in DOMAIN T |->
        IF T[n].id \in ids THEN [T[n] EXCEPT !.status = "in_progress"]
        ELSE T[n]]

RowNames(rows) == [i \in 1..Len(rows) |-> rows[i].topic]

\* the caller drops the returned list
Continue_NoSubmit(c, rows) ==
  /\ call' = [call EXCEPT ![c] = IdleCall]
  /\ UNCHANGED queue

\* what the caller of pick_next_topics does with the returned list:
\*   schedule_endpoint  submits one background_post over the list, unless empty
\*   schedule_daily_posts  starts its loop over the list, unless empty
\*   any other caller just has the list
Continue(c, rows) ==
  CASE call[c].role = "schedule" ->
         /\ call' = [call EXCEPT ![c] = IdleCall]
         /\ queue' = IF rows = <<>> THEN queue
                     ELSE Append(queue, RowNames(rows))
    [] call[c].role = "daily" ->
         /\ call' = [call EXCEPT ![c] =
                       IF rows = <<>> THEN IdleCall
                       ELSE [IdleCall EXCEPT !.pc = "posting",
                                             !.role = "daily",
                                             !.task = RowNames(rows)]]
         /\ UNCHANGED queue
    [] OTHER ->
         /\ call' = [call EXCEPT ![c] = IdleCall]
         /\ UNCHANGED queue

\* pick_next_topics: BEGIN IMMEDIATE and the SELECT
PickBegin(c, role, limit) ==
  /\ call[c].pc = "idle"
  /\ lock = NoOwner
  /\ role = "schedule" => Len(queue) < MaxQueue
  /\ \E rows \in SelectPending(topics, limit) :
       call' = [call EXCEPT ![c] = [pc |-> "selected", role |-> role,
                                    limit |-> limit, rows |-> rows,
                                    task |-> <<>>]]
  /\ lock' = c
  /\ ret' = NoRet
  /\ UNCHANGED <<pl, topics, seq, now, queue, worker>>

\* the rows are read again after the UPDATE
SelectedDicts_Reread(rows) ==
  [i \in 1..Len(rows) |-> [rows[i] EXCEPT !.status = "in_progress"]]

\* selected = [dict(r) for r in rows]: the rows as the SELECT fetched them
SelectedDicts(rows) == rows

\* pick_next_topics: the UPDATE, the commit and the return of the rows
PickCommit(c) ==
  /\ call[c].pc = "selected"
  /\ lock = c
  /\ topics' = UpdateInProgress(topics, call[c].rows)
  /\ lock' = NoOwner
  /\ ret' = PickRet(SelectedDicts(call[c].rows), FALSE)
  /\ Continue(c, SelectedDicts(call[c].rows))
  /\ UNCHANGED <<pl, seq, now, worker>>

\* the exception leaves the UPDATE in place: no rollback
PickFail_Partial(c) ==
  /\ call[c].pc = "selected"
  /\ lock = c
  /\ topics' = UpdateInProgress(topics, call[c].rows)
  /\ lock' = NoOwner
  /\ ret' = PickRet(<<>>, TRUE)
  /\ Continue(c, <<>>)
  /\ UNCHANGED <<pl, seq, now, worker>>

\* pick_next_topics: an exception inside the transaction; rollback, return []
PickFail(c) ==
  /\ call[c].pc = "selected"
  /\ lock = c
  /\ lock' = NoOwner
  /\ ret' = PickRet(<<>>, TRUE)
  /\ Continue(c, <<>>)
  /\ UNCHANGED <<pl, topics, seq, now, worker>>

\* pick_next_topics: BEGIN IMMEDIATE times out on a held lock; return []
PickTimeout(c, role, limit) ==
  /\ call[c].pc = "idle"
  /\ lock # NoOwner
  /\ ret' = PickRet(<<>>, TRUE)
  /\ UNCHANGED <<pl, topics, seq, now, lock, call, queue, worker>>

\* the id is not advanced: every new row gets the same id
NextId_Same(s) == s

\* id INTEGER PRIMARY KEY AUTOINCREMENT: one more than every id used so far
NextId(s) == s + 1

\* INSERT OR REPLACE: an existing row of the name is replaced by the new row
InsertTopic_Replace(T, id, topic, created, note, category) ==
  [n \in DOMAIN T \cup {topic} |->
     IF n = topic THEN NewRow(id, topic, created, note, category) ELSE T[n]]

\* INSERT INTO topics (topic, created_at, note, category): topic is UNIQUE, so
\* with a row of that name present it raises IntegrityError and writes nothing
InsertTopic(T, id, topic, created, note, category) ==
  IF topic \in DOMAIN T THEN T
  ELSE T @@ (topic :> NewRow(id, topic, created, note, category))

\* the lookup after IntegrityError finds nothing
SelectId_Missing(T, topic) == -1

\* SELECT id FROM topics WHERE topic = ?: row["id"] if row else -1
SelectId(T, topic) == IF topic \in DOMAIN T THEN T[topic].id ELSE -1

\* add_topic
add_topic(raw, note, category) ==
  LET topic == Strip(raw)
  IN /\ lock = NoOwner
     /\ topic # <<>>
     /\ IF topic[1] \in DOMAIN topics
        THEN /\ ret' = AddRet(raw, SelectId(topics, topic[1]), TRUE, "none")
             /\ UNCHANGED <<topics, seq>>
        ELSE /\ seq < MaxId
             /\ topics' = InsertTopic(topics, NextId(seq), topic[1], now,
                                      note, category)
             /\ seq' = NextId(seq)
             /\ ret' = AddRet(raw, NextId(seq), FALSE, "none")
     /\ UNCHANGED <<pl, now, lock, call, queue, worker>>

\* add_topic with a name that is empty after strip(): ValueError
add_topic_invalid(raw) ==
  /\ Strip(raw) = <<>>
  /\ ret' = AddRet(raw, NULL, FALSE, "ValueError")
  /\ UNCHANGED <<pl, topics, seq, now, lock, call, queue, worker>>

\* the connection releases the write lock as soon as its INSERT has failed
AddLock_Released(c, conflict) == IF conflict THEN NoOwner ELSE c

\* the INSERT of add_topic takes the write lock inside the transaction the
\* sqlite3 module opened for it; failed or not, the transaction stays open
\* until conn.commit() or conn.close()
AddLock(c, conflict) == c

AddPcs == {"add_inserted", "add_conflict"}

\* add_topic, step by step: strip, the check for an empty name, the INSERT;
\* the call keeps the raw input in task and the row its cursor wrote in rows
AddBegin(c, raw, note, category) ==
  LET topic == Strip(raw)
  IN /\ call[c].pc = "idle"
     /\ lock = NoOwner
     /\ topic # <<>>
     /\ topic[1] \notin DOMAIN topics => seq < MaxId
     /\ topics' = InsertTopic(topics, NextId(seq), topic[1], now, note,
                              category)
     /\ seq' = IF topic[1] \in DOMAIN topics THEN seq ELSE NextId(seq)
     /\ lock' = AddLock(c, topic[1] \in DOMAIN topics)
     /\ call' = [call EXCEPT ![c] =
                   [IdleCall EXCEPT
                      !.pc = IF topic[1] \in DOMAIN topics
                             THEN "add_conflict" ELSE "add_inserted",
                      !.role = "add", !.task = raw,
                      !.rows = IF topic[1] \in DOMAIN topics THEN <<>>
                               ELSE <<topics'[topic[1]]>>]]
     /\ ret' = NoRet
     /\ UNCHANGED <<pl, now, queue, worker>>

\* add_topic, step by step: conn.commit() and return cur.lastrowid, or the
\* SELECT of the existing id in the except branch; then conn.close()
AddFinish(c) ==
  /\ call[c].pc \in AddPcs
  /\ ret' = IF call[c].pc = "add_inserted"
            THEN AddRet(call[c].task, call[c].rows[1].id, FALSE, "none")
            ELSE AddRet(call[c].task,
                        SelectId(topics, Strip(call[c].task)[1]), TRUE,
                        "none")
  /\ lock' = IF lock = c THEN NoOwner ELSE lock
  /\ call' = [call EXCEPT ![c] = IdleCall]
  /\ UNCHANGED <<pl, topics, seq, now, queue, worker>>

\* add_topic: the INSERT times out on a held lock; OperationalError
AddTimeout(c, raw) ==
  /\ call[c].pc = "idle"
  /\ lock # NoOwner
  /\ Strip(raw) # <<>>
  /\ ret' = AddRet(raw, NULL, FALSE, "OperationalError")
  /\ UNCHANGED <<pl, topics, seq, now, lock, call, queue, worker>>

\* delete_topic
delete_topic(T, topic) == [n \in DOMAIN T \ {topic} |-> T[n]]

\* a caller of delete_topic
DeleteTopic(topic) ==
  /\ lock = NoOwner
  /\ topics' = delete_topic(topics, topic)
  /\ ret' = [op |-> "delete_topic", val |-> topic \in DOMAIN topics]
  /\ UNCHANGED <<pl, seq, now, lock, call, queue, worker>>

\* mark_posted
mark_posted(T, id, t) ==
  [n \in DOMAIN T |->
     IF T[n].id = id
     THEN [T[n] EXCEPT !.status = "done", !.last_posted = t,
                       !.times_posted = @ + 1]
     ELSE T[n]]

\* the UPDATE without times_posted = times_posted + 1
mark_topic_done_NoCount(T, topic, t) ==
  [n \in DOMAIN T |->
     IF n = topic
     THEN [T[n] EXCEPT !.status = "done", !.last_posted = t]
     ELSE T[n]]

\* mark_topic_done
mark_topic_done(T, topic, t) ==
  [n \in DOMAIN T |->
     IF n = topic
     THEN [T[n] EXCEPT !.status = "done", !.last_posted = t,
                       !.times_posted = @ + 1]
     ELSE T[n]]

\* mark_topic_status
mark_topic_status(T, topic, status) ==
  [n \in DOMAIN T |->
     IF n = topic THEN [T[n] EXCEPT !.status = status] ELSE T[n]]

\* a Python bool, which compares as the integer 1 or 0
PyBool(b) == IF b THEN 1 ELSE 0

InProgressNames(T) == {n \in DOMAIN T : T[n].status = "in_progress"}

\* the UPDATE with WHERE status IN ('in_progress', 'failed')
reset_scheduling_AlsoFailed(T) ==
  [n \in DOMAIN T |->
     IF T[n].status \in {"in_progress", "failed"}
     THEN [T[n] EXCEPT !.status = "pending"]
     ELSE T[n]]

\* in_progress rows go to pending and failed rows go to in_progress
reset_scheduling_Requeue(T) ==
  [n \in DOMAIN T |->
     IF T[n].status = "in_progress" THEN [T[n] EXCEPT !.status = "pending"]
     ELSE IF T[n].status = "failed"
     THEN [T[n] EXCEPT !.status = "in_progress"]
     ELSE T[n]]

\* reset_scheduling
reset_scheduling(T) ==
  [n \in DOMAIN T |->
     IF T[n].status = "in_progress" THEN [T[n] EXCEPT !.status = "pending"]
     ELSE T[n]]

\* a caller of mark_topic_done (main.py: mark_complete)
MarkTopicDone(topic) ==
  /\ lock = NoOwner
  /\ topic \in DOMAIN topics => topics[topic].times_posted < MaxPosts
  /\ topics' = mark_topic_done(topics, topic, now)
  /\ ret' = [op |-> "mark_topic_done", topic |-> topic]
  /\ UNCHANGED <<pl, seq, now, lock, call, queue, worker>>

\* the UPDATE also writes created_at
mark_failed_Recreate(T, id, note, t) ==
  [n \in DOMAIN T |->
     IF T[n].id = id
     THEN [T[n] EXCEPT !.status = "failed", !.last_posted = t,
                       !.created_at = t,
                       !.note = IF note = NoNote THEN @ ELSE note]
     ELSE T[n]]

\* mark_failed: status = 'failed', last_posted = now,
\* note = COALESCE(?, note), WHERE id = ?
mark_failed(T, id, note, t) ==
  [n \in DOMAIN T |->
     IF T[n].id = id
     THEN [T[n] EXCEPT !.status = "failed", !.last_posted = t,
                       !.note = IF note = NoNote THEN @ ELSE note]
     ELSE T[n]]

\* update_topic_category
update_topic_category(T, topic, category) ==
  [n \in DOMAIN T |->
     IF n = topic THEN [T[n] EXCEPT !.category = category] ELSE T[n]]

\* the SELECT of get_pending_topics without ORDER BY
GetPendingRows_Unordered(T, limit) ==
  {[i \in 1..Len(LimitRows(s, limit)) |-> T[s[i]]] :
     s \in OrderedPending_Unordered(T)}

\* get_pending_topics: SELECT * FROM topics WHERE status = 'pending'
\* ORDER BY created_at LIMIT ?
GetPendingRows(T, limit) == SelectPending(T, limit)

\* a caller of mark_failed
MarkFailed(id, note) ==
  /\ lock = NoOwner
  /\ topics' = mark_failed(topics, id, note, now)
  /\ ret' = [op |-> "mark_failed", id |-> id]
  /\ UNCHANGED <<pl, seq, now, lock, call, queue, worker>>

\* a caller of update_topic_category
UpdateTopicCategory(topic, category) ==
  /\ lock = NoOwner
  /\ topics' = update_topic_category(topics, topic, category)
  /\ ret' = [op |-> "update_topic_category", topic |-> topic]
  /\ UNCHANGED <<pl, seq, now, lock, call, queue, worker>>

\* a caller of get_pending_topics: a read, which takes no write lock
GetPendingTopics(limit) ==
  /\ \E rows \in GetPendingRows(topics, limit) :
       ret' = [op |-> "get_pending_topics", limit |-> limit, val |-> rows]
  /\ UNCHANGED <<pl, topics, seq, now, lock, call, queue, worker>>

\* a caller of mark_posted
MarkPosted(id) ==
  /\ lock = NoOwner
  /\ \A n \in DOMAIN topics :
       topics[n].id = id => topics[n].times_posted < MaxPosts
  /\ topics' = mark_posted(topics, id, now)
  /\ ret' = [op |-> "mark_posted", id |-> id]
  /\ UNCHANGED <<pl, seq, now, lock, call, queue, worker>>

\* a caller of mark_topic_status
MarkTopicStatus(topic, status) ==
  /\ lock = NoOwner
  /\ topics' = mark_topic_status(topics, topic, status)
  /\ ret' = [op |-> "mark_topic_status", topic |-> topic, status |-> status]
  /\ UNCHANGED <<pl, seq, now, lock, call, queue, worker>>

\* a caller of reset_scheduling (main.py: reset)
ResetScheduling ==
  /\ lock = NoOwner
  /\ topics' = reset_scheduling(topics)
  /\ ret' = [op |-> "reset_scheduling",
             val |-> PyBool(Cardinality(InProgressNames(topics)) > 0)]
  /\ UNCHANGED <<pl, seq, now, lock, call, queue, worker>>

\* the clock advances
Tick ==
  /\ now < MaxTime
  /\ now' = now + 1
  /\ ret' = NoRet
  /\ UNCHANGED <<pl, topics, seq, lock, call, queue, worker>>

Init ==
  /\ topics = << >>
  /\ seq = 0
  /\ now = 1
  /\ lock = NoOwner
  /\ call = [c \in Callers |-> IdleCall]
  /\ queue = <<>>
  /\ worker = [w \in Workers |-> IdleWorker]
  /\ pl = NoRun
  /\ claims = [n \in Names |-> 0]
  /\ hist = NoHist
  /\ ret = NoRet

\* ------------------------------------------------------------------------
\* Dispatch (main.py: schedule_endpoint, executor; scheduler.py)
\* ------------------------------------------------------------------------
\* an executor thread takes the oldest submitted background_post
WorkerTake(w) ==
  /\ worker[w].pc = "idle"
  /\ queue # <<>>
  /\ worker' = [worker EXCEPT ![w] = [pc |-> "post", task |-> Head(queue)]]
  /\ queue' = Tail(queue)
  /\ ret' = NoRet
  /\ UNCHANGED <<pl, topics, seq, now, lock, call>>

\* the loop of background_post moves to its next topic, or the task ends
NextTopic(w) ==
  IF Len(worker[w].task) > 1
  THEN [pc |-> "post", task |-> Tail(worker[w].task)]
  ELSE IdleWorker

\* background_post, one turn of its loop: post_topic(topic_obj) ends in one
\* of the ways k, then mark_topic_done, or mark_topic_status(.., 'failed') in
\* the except branch
BackgroundPost(w) ==
  /\ worker[w].pc = "post"
  /\ lock = NoOwner
  /\ \E k \in PostTopicKinds :
       /\ topics' = IF k = "raised"
                    THEN mark_topic_status(topics, Head(worker[w].task),
                                           "failed")
                    ELSE mark_topic_done(topics, Head(worker[w].task), now)
       /\ ret' = [op |-> "background_post",
                  topic |-> Head(worker[w].task), kind |-> k]
  /\ worker' = [worker EXCEPT ![w] = NextTopic(w)]
  /\ UNCHANGED <<pl, seq, now, lock, call, queue>>

\* schedule_daily_posts, one turn of its loop: post_topic(t) ends in one of
\* the ways k; an exception of post_topic ends schedule_daily_posts
DailyPost(c) ==
  /\ call[c].pc = "posting"
  /\ \E k \in PostTopicKinds :
       /\ call' = [call EXCEPT ![c] =
                     IF k = "raised" \/ Len(call[c].task) = 1 THEN IdleCall
                     ELSE [call[c] EXCEPT !.task = Tail(@)]]
       /\ ret' = [op |-> "schedule_daily_posts",
                  topic |-> Head(call[c].task), kind |-> k]
  /\ UNCHANGED <<pl, topics, seq, now, lock, queue, worker>>

\* background_post, one turn of its loop step by step: post_topic is entered
TaskBegin(w) ==
  /\ worker[w].pc = "post"
  /\ pl.pc = "none"
  /\ pl' = PlStart
  /\ worker' = [worker EXCEPT ![w].pc = "running"]
  /\ ret' = NoRet
  /\ UNCHANGED <<topics, seq, now, lock, call, queue>>

\* post_topic takes its next step
TaskAdvance ==
  /\ \E o \in Outcomes(pl) : pl' = PlStep(pl, o)
  /\ ret' = NoRet
  /\ UNCHANGED <<topics, seq, now, lock, call, queue, worker>>

\* post_topic has returned or raised: mark_topic_done, or
\* mark_topic_status(.., 'failed') in the except branch
TaskMark(w) ==
  /\ worker[w].pc = "running"
  /\ pl.pc \in {"returned", "raised"}
  /\ lock = NoOwner
  /\ topics' = IF pl.pc = "raised"
               THEN mark_topic_status(topics, Head(worker[w].task), "failed")
               ELSE mark_topic_done(topics, Head(worker[w].task), now)
  /\ ret' = [op |-> "background_post", topic |-> Head(worker[w].task),
             kind |-> RunKind(pl), error |-> pl.error]
  /\ worker' = [worker EXCEPT ![w] = NextTopic(w)]
  /\ pl' = NoRun
  /\ UNCHANGED <<seq, now, lock, call, queue>>

\* the topic names the dashboard's forms and links send
DashboardNames == {"Arrays", "Stacks"}
RouteNames == {<<n>> : n \in DashboardNames} \cup {<<" ">>}

\* int(request.form.get("howmany", 1)), 1 when it does not parse
HowMany == Limits

\* main.py: add_topic_route passes the category as the note
AddTopicRoute(raw, category) ==
  IF Strip(raw) = <<>>
  THEN /\ ret' = NoRet
       /\ UNCHANGED <<pl, topics, seq, now, lock, call, queue, worker>>
  ELSE add_topic(raw, category, "Other")

\* history of the claims: a name returned by pick_next_topics counts one
\* more claim; a name that becomes pending counts none
Track ==
  claims' = [n \in Names |->
    IF ret'.op = "pick_next_topics" /\ n \in SeqToSet(RowNames(ret'.val))
    THEN claims[n] + 1
    ELSE IF n \in PendingNames(topics') /\ n \notin PendingNames(topics)
    THEN 0
    ELSE claims[n]]

\* the program: the routes of main.py and the executor
Next ==
  \/ \E raw \in RouteNames : AddTopicRoute(raw, "Other") /\ UNCHANGED <<claims, hist>>
  \/ \E c \in Callers, limit \in HowMany :
       PickBegin(c, "schedule", limit) /\ UNCHANGED <<claims, hist>>
  \/ \E c \in Callers : PickCommit(c) /\ UNCHANGED <<claims, hist>>
  \/ \E c \in Callers : PickFail(c) /\ UNCHANGED <<claims, hist>>
  \/ \E c \in Callers, limit \in HowMany :
       PickTimeout(c, "schedule", limit) /\ UNCHANGED <<claims, hist>>
  \/ \E w \in Workers : WorkerTake(w) /\ UNCHANGED <<claims, hist>>
  \/ \E w \in Workers : BackgroundPost(w) /\ UNCHANGED <<claims, hist>>
  \/ \E n \in DashboardNames : MarkTopicDone(n) /\ UNCHANGED <<claims, hist>>
  \/ ResetScheduling /\ UNCHANGED <<claims, hist>>
  \/ Tick /\ UNCHANGED <<claims, hist>>

Spec == Init /\ [][Next]_vars

\* the scheduler script: schedule_daily_posts beside the store's callers
NextDaily ==
  \/ \E raw \in RawNames : add_topic(raw, NoNote, "Other") /\ UNCHANGED <<claims, hist>>
  \/ \E c \in Callers, limit \in 1..MaxLimit :
       PickBegin(c, "daily", limit) /\ UNCHANGED <<claims, hist>>
  \/ \E c \in Callers : PickCommit(c) /\ UNCHANGED <<claims, hist>>
  \/ \E c \in Callers : PickFail(c) /\ UNCHANGED <<claims, hist>>
  \/ \E c \in Callers, limit \in 1..MaxLimit :
       PickTimeout(c, "daily", limit) /\ UNCHANGED <<claims, hist>>
  \/ \E c \in Callers : DailyPost(c) /\ UNCHANGED <<claims, hist>>
  \/ ResetScheduling /\ UNCHANGED <<claims, hist>>
  \/ Tick /\ UNCHANGED <<claims, hist>>

SpecDaily == Init /\ [][NextDaily]_vars

\* one dispatch at a time followed through post_topic: the routes of main.py
\* and the executor, the running background_post step by step
NextTask ==
  \/ \E raw \in RouteNames : AddTopicRoute(raw, "Other") /\ UNCHANGED <<claims, hist>>
  \/ \E c \in Callers, limit \in HowMany :
       PickBegin(c, "schedule", limit) /\ UNCHANGED <<claims, hist>>
  \/ \E c \in Callers : PickCommit(c) /\ UNCHANGED <<claims, hist>>
  \/ \E c \in Callers : PickFail(c) /\ UNCHANGED <<claims, hist>>
  \/ \E c \in Callers, limit \in HowMany :
       PickTimeout(c, "schedule", limit) /\ UNCHANGED <<claims, hist>>
  \/ \E w \in Workers : WorkerTake(w) /\ UNCHANGED <<claims, hist>>
  \/ \E w \in Workers : TaskBegin(w) /\ UNCHANGED <<claims, hist>>
  \/ TaskAdvance /\ UNCHANGED <<claims, hist>>
  \/ \E w \in Workers : TaskMark(w) /\ UNCHANGED <<claims, hist>>

SpecTask == Init /\ [][NextTask]_vars

\* ------------------------------------------------------------------------
\* One run of post_topic, step by step
\* ------------------------------------------------------------------------
PlBegin ==
  /\ pl.pc \in {"none", "returned", "raised"}
  /\ pl' = PlStart
  /\ ret' = NoRet
  /\ UNCHANGED <<topics, seq, now, lock, call, queue, worker, claims, hist>>

PlAdvance ==
  /\ \E o \in Outcomes(pl) : pl' = PlStep(pl, o)
  /\ ret' = IF pl'.pc = "returned"
            THEN [op |-> "post_topic", val |-> pl'.published] ELSE NoRet
  /\ UNCHANGED <<topics, seq, now, lock, call, queue, worker, claims, hist>>

NextPipeline == PlBegin \/ PlAdvance

SpecPipeline == Init /\ [][NextPipeline]_vars

\* the store under direct callers of the topic_tracker functions
NextStore ==
  \/ \E raw \in RawNames : add_topic(raw, NoNote, "Other") /\ Track /\ UNCHANGED hist
  \/ \E raw \in RawNames : add_topic_invalid(raw) /\ Track /\ UNCHANGED hist
  \/ \E c \in Callers, limit \in Limits : PickBegin(c, "api", limit) /\ Track /\ UNCHANGED hist
  \/ \E c \in Callers : PickCommit(c) /\ Track /\ UNCHANGED hist
  \/ \E c \in Callers : PickFail(c) /\ Track /\ UNCHANGED hist
  \/ \E c \in Callers, limit \in Limits : PickTimeout(c, "api", limit) /\ Track /\ UNCHANGED hist
  \/ \E n \in Names, s \in Statuses : MarkTopicStatus(n, s) /\ Track /\ UNCHANGED hist
  \/ ResetScheduling /\ Track /\ UNCHANGED hist
  \/ Tick /\ Track /\ UNCHANGED hist

SpecStore == Init /\ [][NextStore]_vars

\* what the callers of add_topic pass
AddRaws ==
  {<<n>> : n \in DashboardNames} \cup {<<" ", "Arrays", " ">>, <<>>, <<" ", " ">>}
AddNotes == {<<NoNote, "Other">>, <<"Trees", "Trees">>}

\* add_topic and delete_topic under concurrent callers, add_topic step by step
NextAdd ==
  \/ \E c \in Callers, raw \in AddRaws, nc \in AddNotes :
       AddBegin(c, raw, nc[1], nc[2]) /\ UNCHANGED <<claims, hist>>
  \/ \E c \in Callers : AddFinish(c) /\ UNCHANGED <<claims, hist>>
  \/ \E c \in Callers, raw \in AddRaws : AddTimeout(c, raw) /\ UNCHANGED <<claims, hist>>
  \/ \E raw \in AddRaws : add_topic_invalid(raw) /\ UNCHANGED <<claims, hist>>
  \/ \E n \in DashboardNames : DeleteTopic(n) /\ UNCHANGED <<claims, hist>>
  \/ \E n \in DashboardNames, s \in Statuses :
       MarkTopicStatus(n, s) /\ UNCHANGED <<claims, hist>>
  \/ \E n \in DashboardNames : MarkTopicDone(n) /\ UNCHANGED <<claims, hist>>
  \/ Tick /\ UNCHANGED <<claims, hist>>

SpecAdd == Init /\ [][NextAdd]_vars

\* the status strings callers of mark_topic_status pass, the categories the
\* form of /add_topic sends
StatusInputs == Statuses \cup {"archived"}
FormCategories == {"Other", "Trees"}

\* history of the fields: a row whose status becomes done counts one more
\* transition to done, a row just created counts none; form is the category
\* the form of this step gave
Observe(form) ==
  hist' =
    [dones |->
       [n \in Names |->
          IF n \notin DOMAIN topics' \/ n \notin DOMAIN topics THEN 0
          ELSE IF topics'[n].status = "done" /\ topics[n].status # "done"
          THEN Min(hist.dones[n] + 1, MaxPosts + 1)
          ELSE hist.dones[n]],
     form |-> form]

\* the fields of the rows under the dashboard's form and direct callers of
\* the topic_tracker functions
NextFields ==
  \/ \E raw \in RouteNames, category \in FormCategories :
       AddTopicRoute(raw, category) /\ Observe(category) /\ UNCHANGED claims
  \/ \E n \in DashboardNames :
       MarkTopicDone(n) /\ Observe("none") /\ UNCHANGED claims
  \/ \E n \in DashboardNames, s \in StatusInputs :
       MarkTopicStatus(n, s) /\ Observe("none") /\ UNCHANGED claims
  \/ \E id \in 1..MaxId : MarkPosted(id) /\ Observe("none") /\ UNCHANGED claims
  \/ ResetScheduling /\ Observe("none") /\ UNCHANGED claims
  \/ Tick /\ Observe("none") /\ UNCHANGED claims

SpecFields == Init /\ [][NextFields]_vars

\* the note callers of mark_failed pass: the default, None
FailNotes == {NoNote}

\* every operation of topic_tracker that writes a row, and get_pending_topics
NextFrame ==
  \/ \E raw \in AddRaws :
       add_topic(raw, NoNote, "Other") /\ UNCHANGED <<claims, hist>>
  \/ \E c \in Callers, limit \in 1..MaxLimit :
       PickBegin(c, "api", limit) /\ UNCHANGED <<claims, hist>>
  \/ \E c \in Callers : PickCommit(c) /\ UNCHANGED <<claims, hist>>
  \/ \E n \in DashboardNames : MarkTopicDone(n) /\ UNCHANGED <<claims, hist>>
  \/ \E n \in DashboardNames, s \in Statuses :
       MarkTopicStatus(n, s) /\ UNCHANGED <<claims, hist>>
  \/ \E id \in 1..MaxId, note \in FailNotes :
       MarkFailed(id, note) /\ UNCHANGED <<claims, hist>>
  \/ \E n \in DashboardNames, category \in FormCategories :
       UpdateTopicCategory(n, category) /\ UNCHANGED <<claims, hist>>
  \/ ResetScheduling /\ UNCHANGED <<claims, hist>>
  \/ \E limit \in Limits : GetPendingTopics(limit) /\ UNCHANGED <<claims, hist>>
  \/ Tick /\ UNCHANGED <<claims, hist>>

SpecFrame == Init /\ [][NextFrame]_vars

\* ------------------------------------------------------------------------
\* Properties
\* ------------------------------------------------------------------------
\* the step ends a pick_next_topics call that held the write lock
PickCompleted ==
  /\ ret'.op = "pick_next_topics"
  /\ lock # NoOwner
  /\ lock' = NoOwner

\* the step is the commit of a pick_next_topics call
PickCommitted == PickCompleted /\ ~ret'.err

Returned(r) == SeqToSet(RowNames(r.val))

PendingCount(T) == Cardinality(PendingNames(T))

\* the executor threads that are running post_topic for the name n
Processing(n) ==
  {w \in Workers : worker[w].pc = "post" /\ Head(worker[w].task) = n}

\* C1: no topic is returned by two pick_next_topics calls, whatever threads or
\* processes make them, unless it was put back to pending between the two:
\* since a name last became pending, at most one call has returned it.
C1_ExclusiveClaim == \A n \in Names : claims[n] <= 1

\* C1 witness: a call has just returned one topic while another topic, returned
\* by an earlier call and not put back, is still in_progress.
C1_Witness ==
  /\ ret.op = "pick_next_topics"
  /\ Len(ret.val) = 1
  /\ \E n \in DOMAIN topics :
       /\ n \notin Returned(ret)
       /\ claims[n] = 1
       /\ topics[n].status = "in_progress"
  /\ \A m \in Returned(ret) : claims[m] = 1

\* C2: a committed pick_next_topics returns no topic twice, returns only
\* topics that were pending before it and that no earlier call still holds,
\* and the topics it moved to in_progress are exactly the topics it returns.
C2_ClaimedIsReturned ==
  [][PickCommitted =>
       /\ Cardinality(Returned(ret')) = Len(ret'.val)
       /\ Returned(ret') \subseteq PendingNames(topics)
       /\ \A n \in Returned(ret') : claims[n] = 0
       /\ {n \in DOMAIN topics' : topics'[n].status # topics[n].status}
            = Returned(ret')
       /\ \A n \in Returned(ret') : topics'[n].status = "in_progress"]_vars

\* C2 witness: a call has just returned two topics, both now in_progress,
\* while a third topic is left pending.
C2_Witness ==
  /\ ret.op = "pick_next_topics"
  /\ Len(ret.val) = 2
  /\ \A n \in Returned(ret) : topics[n].status = "in_progress"
  /\ PendingCount(topics) = 1

\* C3: in every state each topic is being processed by at most one
\* orchestration task.
C3_SingleTask == \A n \in Names : Cardinality(Processing(n)) <= 1

Edges ==
  {<<"pending", "in_progress">>, <<"in_progress", "done">>,
   <<"in_progress", "failed">>, <<"in_progress", "pending">>}

\* C4: every change of a topic's status follows one of the four edges
\* pending->in_progress, in_progress->done, in_progress->failed,
\* in_progress->pending.
C4_OnlyEdges ==
  [][\A n \in DOMAIN topics \cap DOMAIN topics' :
       topics'[n].status # topics[n].status
         => <<topics[n].status, topics'[n].status>> \in Edges]_vars

\* C5: once a topic is done, no step of the program changes its status.
C5_DoneIsStable ==
  [][\A n \in DOMAIN topics \cap DOMAIN topics' :
       topics[n].status = "done" => topics'[n].status = "done"]_vars

C8_EndsDoneOrFailed ==
  [][ret'.op \in {"background_post", "schedule_daily_posts"} =>
       topics'[ret'.topic].status \in {"done", "failed"}]_vars

\* C9: a dispatched topic whose publish calls did not all succeed becomes
\* failed and is not marked done.
C9_PartialFailureFails ==
  [][(ret'.op = "background_post" /\ ret'.kind = "partial_failure") =>
       topics'[ret'.topic].status = "failed"]_vars

\* C10: within one run of post_topic the images are attempted once each in
\* list order, whatever the earlier attempts returned or raised.
C10_AllAttemptedInOrder ==
  /\ pl.pc = "publish" => pl.attempts = [k \in 1..(pl.i - 1) |-> k]
  /\ pl.pc = "returned" =>
       pl.attempts = [k \in 1..Len(pl.image_paths) |-> k]

\* C10 witness: of three images the second was not posted and the third was
\* attempted all the same.
C10_Witness ==
  /\ pl.pc = "returned"
  /\ pl.attempts = <<1, 2, 3>>
  /\ pl.published = <<TRUE, FALSE, TRUE>>

\* C11: when the pipeline of one topic of a dispatched batch raises, that
\* topic is marked failed and the rest of the batch is still run: the
\* dispatcher goes on with the next topic of its list.
C11_FailureIsolated ==
  [][(ret'.op = "schedule_daily_posts" /\ ret'.kind = "raised") =>
       /\ topics'[ret'.topic].status = "failed"
       /\ \A c \in Callers :
            (call'[c] # call[c] /\ call[c].pc = "posting"
               /\ Len(call[c].task) > 1)
              => (call'[c].pc = "posting"
                    /\ call'[c].task = Tail(call[c].task))]_vars

\* the run of post_topic ended with the exception of generate_topic_slides
GenerationFailed(p) == p.pc = "raised" /\ p.error = "generation"

\* C12: when generate_topic_slides fails for a dispatched topic, it was called
\* exactly once, nothing was rendered, sourced or published for the topic, and
\* background_post leaves the topic failed.
C12_GenerationFailureFails ==
  [][(ret'.op = "background_post" /\ GenerationFailed(pl)) =>
       /\ pl.gen_calls = 1
       /\ pl.render_calls = 0
       /\ pl.fetch_calls = 0
       /\ pl.image_paths = <<>>
       /\ pl.attempts = <<>>
       /\ topics'[ret'.topic].status = "failed"]_vars

\* C12 witness: background_post has just marked a topic failed after the
\* generation of its slides raised.
C12_Witness ==
  /\ ret.op = "background_post"
  /\ ret.kind = "raised"
  /\ ret.error = "generation"
  /\ topics[ret.topic].status = "failed"

\* generate_slides_and_save was called and saved no slide
NoSlides(p) ==
  /\ p.render_calls = 1
  /\ \A k \in 1..Len(p.image_paths) : p.image_paths[k].src # "slide"

\* C13: when rendering saved no slide for a dispatched topic, the pipeline
\* went on to neither sourcing nor publishing and the topic ends failed.
C13_ZeroArtifactsFails ==
  [][(ret'.op = "background_post" /\ NoSlides(pl)) =>
       /\ pl.fetch_calls = 0
       /\ pl.attempts = <<>>
       /\ topics'[ret'.topic].status = "failed"]_vars

\* C14: a failure while a sourced image is copied into the image list is
\* swallowed: post_topic still returns, every rendered slide was given to the
\* publisher, and background_post marks the topic as it does without extras.
C14_SourcingFailureSwallowed ==
  [][(ret'.op = "background_post" /\ pl.error = "copy") =>
       /\ pl.pc = "returned"
       /\ Len(pl.attempts) = Len(pl.image_paths)
       /\ topics'[ret'.topic].status = "done"]_vars

\* C15: whenever background_post marks a topic failed, the topic's note holds
\* the reason of the failure afterwards.
C15_FailureNoteWritten ==
  [][(ret'.op = "background_post"
        /\ topics'[ret'.topic].status = "failed") =>
       topics'[ret'.topic].note = pl.error]_vars

\* the name add_topic stores for the raw input
AddName(raw) == Strip(raw)[1]

\* the raw input has nothing but whitespace
Blank(raw) == \A i \in 1..Len(raw) : raw[i] = " "

\* the step is caller c's add_topic reaching its INSERT
AddBegins(c) == call[c].pc = "idle" /\ call'[c].pc \in AddPcs

\* C16: add_topic is idempotent on the stripped name: a call for a name that
\* has a row leaves the number of rows unchanged and returns the id of that
\* row, the id the call that created the row returned; no step changes the id
\* of a row.
C16_AddIdempotent ==
  [][/\ \A c \in Callers :
          (AddBegins(c) /\ AddName(call'[c].task) \in DOMAIN topics)
            => Cardinality(DOMAIN topics') = Cardinality(DOMAIN topics)
     /\ (ret'.op = "add_topic" /\ ret'.err = "none" /\ ret'.existed)
          => ret'.val = topics[AddName(ret'.raw)].id
     /\ (ret'.op = "add_topic" /\ ret'.err = "none" /\ ~ret'.existed)
          => ret'.val = topics'[AddName(ret'.raw)].id
     /\ \A n \in DOMAIN topics \cap DOMAIN topics' :
          topics'[n].id = topics[n].id]_vars

\* C16 witness: Arrays has the only row and add_topic(" Arrays ") has just
\* returned its id.
C16_Witness ==
  /\ ret.op = "add_topic"
  /\ ret.raw = <<" ", "Arrays", " ">>
  /\ ret.existed
  /\ DOMAIN topics = {"Arrays"}
  /\ ret.val = topics["Arrays"].id

C18_EmptyNameRejected ==
  [][/\ (ret'.op = "add_topic" /\ Blank(ret'.raw))
          => (ret'.err = "ValueError" /\ topics' = topics /\ seq' = seq
                /\ lock' = lock)
     /\ \A c \in Callers : call'[c].pc \in AddPcs => ~Blank(call'[c].task)]_vars

\* C18 witness: add_topic("  ") has just raised ValueError with two rows in
\* the table.
C18_Witness ==
  /\ ret.op = "add_topic"
  /\ ret.raw = <<" ", " ">>
  /\ ret.err = "ValueError"
  /\ Cardinality(DOMAIN topics) = 2

\* C19: an add_topic call that returns, returns the id of a row that holds
\* its name, never -1 and never a uniqueness error; while a call is between
\* its INSERT and its return no other caller changes the table, so callers
\* adding the same new name create one row and all get its id.
C19_AddRace ==
  [][/\ (ret'.op = "add_topic" /\ ret'.err = "none")
          => /\ AddName(ret'.raw) \in DOMAIN topics'
             /\ topics'[AddName(ret'.raw)].topic = AddName(ret'.raw)
             /\ ret'.val = topics'[AddName(ret'.raw)].id
             /\ ret'.val # -1
     /\ ret'.op = "add_topic" => ret'.err # "IntegrityError"
     /\ \A c \in Callers :
          (call[c].pc \in AddPcs /\ call'[c] = call[c])
            => (topics' = topics /\ seq' = seq)]_vars

\* C19 witness: a second add_topic("Arrays") has just returned the id of the
\* one row the first created.
C19_Witness ==
  /\ ret.op = "add_topic"
  /\ ret.raw = <<"Arrays">>
  /\ ret.existed
  /\ ret.val = 1
  /\ seq = 1
  /\ DOMAIN topics = {"Arrays"}

\* C20: add_topic for a name that has a row leaves the table as it is: every
\* field of the row keeps its value, whatever its status.
C20_ReaddIgnored ==
  [][/\ \A c \in Callers :
          (AddBegins(c) /\ AddName(call'[c].task) \in DOMAIN topics)
            => (topics' = topics /\ seq' = seq)
     /\ (ret'.op = "add_topic" /\ ret'.existed)
          => (topics' = topics /\ seq' = seq)]_vars

\* C20 witness: add_topic is at the failed INSERT for a name whose row is
\* failed, was created earlier and was posted once.
C20_Witness ==
  \E c \in Callers :
    /\ call[c].pc = "add_conflict"
    /\ topics[AddName(call[c].task)].status = "failed"
    /\ topics[AddName(call[c].task)].created_at < now
    /\ topics[AddName(call[c].task)].times_posted = 1

\* C21: a topic created through the /add_topic form is stored pending, with
\* times_posted 0, last_posted NULL and its category column equal to the
\* category the form gave.
C21_RouteStoresCategory ==
  [][(ret'.op = "add_topic" /\ ret'.err = "none" /\ ~ret'.existed) =>
       LET row == topics'[AddName(ret'.raw)]
       IN /\ row.status = "pending"
          /\ row.times_posted = 0
          /\ row.last_posted = NULL
          /\ row.category = hist'.form]_vars

\* C22: mark_topic_done(name) on an existing topic makes it done, stamps
\* last_posted with the current time, which is not NULL, and adds exactly 1 to
\* times_posted; it changes no other field of the row and no other row, and
\* on a name without a row it changes nothing.
C22_MarkDone ==
  [][ret'.op = "mark_topic_done" =>
       /\ DOMAIN topics' = DOMAIN topics
       /\ \A m \in DOMAIN topics :
            IF m = ret'.topic
            THEN topics'[m] =
                   [topics[m] EXCEPT !.status = "done", !.last_posted = now,
                                     !.times_posted = @ + 1]
                 /\ topics'[m].last_posted # NULL
            ELSE topics'[m] = topics[m]
       /\ ret'.topic \notin DOMAIN topics => topics' = topics]_vars

\* C22 witness: mark_topic_done("Arrays") has just made Arrays done, posted
\* once, while Stacks stays in_progress and never posted.
C22_Witness ==
  /\ ret.op = "mark_topic_done"
  /\ ret.topic = "Arrays"
  /\ DOMAIN topics = {"Arrays", "Stacks"}
  /\ topics["Arrays"].status = "done"
  /\ topics["Arrays"].times_posted = 1
  /\ topics["Arrays"].last_posted = now
  /\ topics["Stacks"].status = "in_progress"
  /\ topics["Stacks"].times_posted = 0

\* C23: in every state each topic's times_posted is non-negative and equals
\* the number of times its status became done since the row was created.
C23_CountsDoneTransitions ==
  \A n \in DOMAIN topics :
    topics[n].times_posted >= 0 /\ topics[n].times_posted = hist.dones[n]

\* C24: in every state a topic whose status is done has a last_posted that is
\* not NULL.
C24_DoneHasTimestamp ==
  \A n \in DOMAIN topics :
    topics[n].status = "done" => topics[n].last_posted # NULL

\* C25: in every state every topic's status is one of pending, in_progress,
\* done, failed.
C25_StatusInEnumeration == \A n \in DOMAIN topics : topics[n].status \in Statuses

\* what reset_scheduling does to the table: every in_progress row becomes
\* pending, every other row and every other field stays as it is
ResetEffect ==
  /\ DOMAIN topics' = DOMAIN topics
  /\ \A n \in DOMAIN topics :
       IF topics[n].status = "in_progress"
       THEN topics'[n] = [topics[n] EXCEPT !.status = "pending"]
       ELSE topics'[n] = topics[n]

\* C26 as stated: reset_scheduling moves every in_progress topic to pending,
\* leaves the rest unchanged and returns the number of rows it changed.
C26_ResetReturnsCount ==
  [][ret'.op = "reset_scheduling" =>
       /\ ResetEffect
       /\ ret'.val = Cardinality(InProgressNames(topics))]_vars

\* C26 amended: reset_scheduling moves every in_progress topic to pending,
\* leaves the rest unchanged and returns whether it changed any row: True
\* when at least one topic was in_progress, False otherwise.
C26_ResetReturnsWhetherChanged ==
  [][ret'.op = "reset_scheduling" =>
       /\ ResetEffect
       /\ ret'.val = PyBool(Cardinality(InProgressNames(topics)) > 0)
       /\ InProgressNames(topics') = {}]_vars

\* C26 witness: reset_scheduling has just returned True; Arrays, made
\* in_progress by mark_topic_status, is pending and Stacks is still failed.
C26_Witness ==
  /\ ret.op = "reset_scheduling"
  /\ ret.val = 1
  /\ DOMAIN topics = {"Arrays", "Stacks"}
  /\ topics["Arrays"].status = "pending"
  /\ topics["Stacks"].status = "failed"

\* C27: a reset_scheduling that comes right after a reset_scheduling leaves
\* the table as it is and reports no changed row.
C27_ResetIdempotent ==
  [][(ret.op = "reset_scheduling" /\ ret'.op = "reset_scheduling") =>
       (topics' = topics /\ ret'.val = 0)]_vars

\* C27 witness: reset_scheduling has just reported no changed row with a
\* pending and a failed topic in the table.
C27_Witness ==
  /\ ret.op = "reset_scheduling"
  /\ ret.val = 0
  /\ DOMAIN topics = {"Arrays", "Stacks"}
  /\ topics["Arrays"].status = "pending"
  /\ topics["Stacks"].status = "failed"

\* C28: a failed topic is returned by no pick_next_topics, and its status is
\* changed by no step other than a mark_topic_status or mark_topic_done called
\* for it directly, or its deletion.
C28_FailedStaysFailed ==
  [][/\ \A n \in DOMAIN topics :
          topics[n].status = "failed" =>
            \/ (n \in DOMAIN topics' /\ topics'[n].status = "failed")
            \/ (ret'.op \in {"mark_topic_done", "mark_topic_status"}
                  /\ ret'.topic = n)
            \/ ret'.op = "delete_topic"
     /\ ret'.op = "pick_next_topics" =>
          \A n \in Returned(ret') : topics[n].status # "failed"]_vars

\* the topic is in_progress and no call, queued task or executor thread has it
Orphan(n) ==
  /\ n \in DOMAIN topics
  /\ topics[n].status = "in_progress"
  /\ \A c \in Callers : n \notin SeqToSet(call[c].task)
  /\ \A w \in Workers : n \notin SeqToSet(worker[w].task)
  /\ \A i \in 1..Len(queue) : n \notin SeqToSet(queue[i])

\* C29: no step other than reset_scheduling or a direct mark_topic_status
\* moves a topic from in_progress to pending, and a topic that is in_progress
\* with no task working on it stays in_progress until reset_scheduling or a
\* direct status operation is called.
C29_NoSelfHeal ==
  [][\A n \in DOMAIN topics :
       topics[n].status = "in_progress" =>
         /\ (n \in DOMAIN topics' /\ topics'[n].status = "pending")
              => ret'.op \in {"reset_scheduling", "mark_topic_status"}
         /\ Orphan(n) =>
              \/ (n \in DOMAIN topics' /\ topics'[n].status = "in_progress")
              \/ ret'.op \in {"reset_scheduling", "mark_topic_status",
                               "mark_topic_done", "mark_posted",
                               "delete_topic"}]_vars

\* C29 witness: a topic that schedule_daily_posts left in_progress is still
\* in_progress after a later pick_next_topics has claimed another topic.
C29_Witness ==
  /\ ret.op = "pick_next_topics"
  /\ Len(ret.val) = 1
  /\ \E n \in DOMAIN topics : Orphan(n) /\ n \notin Returned(ret)

\* C30: the /schedule request ends with the commit of pick_next_topics and
\* the submission of one background_post: it takes no pipeline step and waits
\* for none, its topics are in_progress when it returns, and no later
\* background_post step reaches back into a request.
C30_FireAndForget ==
  [][/\ (PickCompleted /\ call[lock].role = "schedule") =>
          /\ call'[lock] = IdleCall
          /\ worker' = worker
          /\ pl' = pl
          /\ queue' = IF ret'.val = <<>> THEN queue
                      ELSE Append(queue, RowNames(ret'.val))
          /\ \A n \in Returned(ret') : topics'[n].status = "in_progress"
     /\ ret'.op = "background_post" => call' = call]_vars

\* C30 witness: the request has returned, its background_post waits in the
\* queue and its two topics are in_progress.
C30_Witness ==
  /\ ret.op = "pick_next_topics"
  /\ Len(ret.val) = 2
  /\ \A c \in Callers : call[c] = IdleCall
  /\ queue = <<RowNames(ret.val)>>
  /\ \A n \in Returned(ret) : topics[n].status = "in_progress"

\* C31: a pick_next_topics that fails before its commit, by an exception in
\* the transaction or a lock timeout, changes no row: the rows it had selected
\* are still pending, and the /schedule request that made it submits no task.
C31_FailedClaimChangesNothing ==
  [][(ret'.op = "pick_next_topics" /\ ret'.err) =>
       /\ topics' = topics
       /\ seq' = seq
       /\ queue' = queue
       /\ worker' = worker
       /\ PickCompleted =>
            /\ call'[lock] = IdleCall
            /\ \A i \in 1..Len(call[lock].rows) :
                 topics'[call[lock].rows[i].topic].status = "pending"]_vars

\* C31 witness: a pick_next_topics that had selected rows has just failed and
\* rolled back: two topics are pending, nothing is queued, the lock is free.
C31_Witness ==
  /\ ret.op = "pick_next_topics"
  /\ ret.err
  /\ lock = NoOwner
  /\ PendingCount(topics) = 2
  /\ queue = <<>>
  /\ \A w \in Workers : worker[w] = IdleWorker

\* C32: a pick_next_topics that failed is told apart by its caller from one
\* that found nothing pending: what it hands back is not the empty list.
C32_FailureSurfaced ==
  [][(ret'.op = "pick_next_topics" /\ ret'.err) => ret'.val # <<>>]_vars

\* C35: a /schedule request that claims n topics submits n tasks to the
\* executor, one for each claimed topic.
C35_OneTaskPerTopic ==
  [][(PickCommitted /\ call[lock].role = "schedule") =>
       Len(queue') = Len(queue) + Len(ret'.val)]_vars

\* the executor threads that are running a background_post
Executing == {w \in Workers : worker[w].pc = "post"}

\* C36: in every state at most max_workers tasks are executing, and while all
\* executor threads are busy every topic of a task that waits in the queue is
\* in_progress.
C36_PoolBound ==
  /\ Cardinality(Executing) <= max_workers
  /\ Executing = Workers =>
       \A i \in 1..Len(queue) :
         \A n \in SeqToSet(queue[i]) : topics[n].status = "in_progress"

\* C37: the records a committed pick_next_topics returns are the rows as they
\* were before the UPDATE: each carries status pending and the id, name and
\* created_at of its row, and the row in the table is in_progress.
C37_PreTransitionSnapshot ==
  [][PickCommitted =>
       \A i \in 1..Len(ret'.val) :
         LET r == ret'.val[i]
         IN /\ r.status = "pending"
            /\ r = topics[r.topic]
            /\ r.topic \in DOMAIN topics'
            /\ r.id = topics'[r.topic].id
            /\ r.created_at = topics'[r.topic].created_at
            /\ topics'[r.topic].status = "in_progress"]_vars

\* C37 witness: a call has just returned the record of Arrays with status
\* pending while the row of Arrays is in_progress.
C37_Witness ==
  /\ ret.op = "pick_next_topics"
  /\ Len(ret.val) = 1
  /\ ret.val[1].topic = "Arrays"
  /\ ret.val[1].status = "pending"
  /\ topics["Arrays"].status = "in_progress"
  /\ ret.val[1].id = topics["Arrays"].id

\* C38: the list post_topic returns has an entry only for an image whose
\* post succeeded, so every entry is a success and the length of the list is
\* the number of images posted.
C38_OnlySuccessesListed ==
  pl.pc = "returned" =>
    \A k \in 1..Len(pl.published) : pl.published[k]

\* C33: no operation on an existing row changes its created_at, so of two
\* rows the one that was older stays the older one.
C33_CreatedAtFrozen ==
  [][\A n \in DOMAIN topics \cap DOMAIN topics' :
       /\ topics'[n].created_at = topics[n].created_at
       /\ \A m \in DOMAIN topics \cap DOMAIN topics' :
            (topics[n].created_at < topics[m].created_at)
              = (topics'[n].created_at < topics'[m].created_at)]_vars

\* C33 witness: mark_failed has just stamped a topic that was created at an
\* earlier time and was claimed, posted and re-categorised before.
C33_Witness ==
  /\ ret.op = "mark_failed"
  /\ \E n \in DOMAIN topics :
       /\ topics[n].id = ret.id
       /\ topics[n].status = "failed"
       /\ topics[n].created_at < now
       /\ topics[n].last_posted = now
       /\ topics[n].times_posted = 1
       /\ topics[n].category = "Trees"

C39_StampOnlyWhenPosted ==
  \A n \in DOMAIN topics :
    topics[n].last_posted # NULL => topics[n].times_posted >= 1

====
